---- MODULE Spec2Model ----
(***************************************************************************)
(* Model of conduit's KeyBackups store (src/database/key_backups.rs).      *)
(*                                                                         *)
(* The three sled trees are functions from byte keys (sequences of         *)
(* 0..255) to byte values; scan_prefix is the ascending (byte-             *)
(* lexicographic) list of the keys that start with the prefix.  Keys are   *)
(* built exactly as the code builds them: the components' bytes joined by  *)
(* the separator byte 0xff.  Version ids are the decimal rendering of the  *)
(* global counter, etags its 8-byte big-endian rendering, metadata and key *)
(* data their JSON text.  Failures of the storage engine itself (the `?`   *)
(* on sled calls) are outside the model.                                   *)
(***************************************************************************)
EXTENDS Integers, Sequences, FiniteSets, TLC

\* ------------------------------------------------------------------ bounds
\* The store's operations take at most MaxDraws values from the counter.
MaxDraws == 5
\* Other parts of the server take OtherDraws values from the counter in one
\* go, and only while that leaves the counter at or below MaxCount.
OtherDraws == 7
MaxCount == 9

\* ------------------------------------------------------------------ inputs
\* The separator byte pushed between the components of a key.
SEP == 255

\* User ids as bytes ("@a", "@ab"): one is a byte prefix of the other.
Users == {<<64, 97>>, <<64, 97, 98>>}
\* Room ids as bytes ("!r:x", "!r:xy").
Rooms == {<<33, 114, 58, 120>>, <<33, 114, 58, 120, 121>>}
\* Session ids as bytes ("s1", "s10").
Sessions == {<<115, 49>>, <<115, 49, 48>>}
\* BackupAlgorithm values and KeyBackupData values (opaque to the store).
Metas == {1, 2}
Datas == {1, 2}

\* One kind of identifier at a time takes both of its values, the others their
\* first: the runs with scope "users" call the store for both users, and so on.
Scopes == {"users", "rooms", "sessions"}

VARIABLES
    scope,                \* which kind of identifier varies in this run
    backupid_algorithm,   \* tree: UserId 0xff Version -> JSON of BackupAlgorithm
    backupid_etag,        \* tree: UserId 0xff Version -> 8-byte big-endian u64
    backupkeyid_backup,   \* tree: UserId 0xff Version 0xff RoomId 0xff SessionId -> JSON
    count,                \* the global counter behind Globals::next_count
    draws,                \* history: counter values taken by this store
    last,                 \* the call that completed last, with its result
    issued,               \* history: version ids returned by create_backup
    live,                 \* history: <<user, version, room, session>> added, not deleted
    calls                 \* the calls in progress, one per thread, step by step

vars == <<scope, backupid_algorithm, backupid_etag, backupkeyid_backup, count,
          draws, last, issued, live, calls>>

\* ------------------------------------------------------------------ results
Ok(x) == [ok |-> TRUE, val |-> x]
Err(e) == [ok |-> FALSE, err |-> e]
None == <<>>
Some(x) == <<x>>

\* ------------------------------------------------------------------ bytes
\* u64::to_string: the decimal digits, as ASCII bytes, no leading zero.
RECURSIVE to_string(_)
to_string(n) ==
    IF n < 10 THEN <<48 + n>> ELSE Append(to_string(n \div 10), 48 + (n % 10))

\* str::parse::<u64> of a decimal string (the reading of an etag as an integer).
RECURSIVE parse_u64(_)
parse_u64(s) ==
    IF s = <<>> THEN 0
    ELSE 10 * parse_u64(SubSeq(s, 1, Len(s) - 1)) + (s[Len(s)] - 48)

RECURSIVE be_bytes(_, _)
be_bytes(n, w) ==
    IF w = 0 THEN <<>> ELSE Append(be_bytes(n \div 256, w - 1), n % 256)

\* u64::to_be_bytes: eight bytes, most significant first.
to_be_bytes(n) == be_bytes(n, 8)

RECURSIVE be_value(_)
be_value(b) ==
    IF b = <<>> THEN 0
    ELSE 256 * be_value(SubSeq(b, 1, Len(b) - 1)) + b[Len(b)]

\* utils::u64_from_bytes: fails unless there are exactly eight bytes.
u64_from_bytes(b) ==
    IF Len(b) = 8 THEN Ok(be_value(b)) ELSE Err("bad_database")

\* serde_json::to_string of an opaque value x: the text {"k":x} cut down to
\* the three bytes '{', digit, '}'.
to_json(x) == <<123, 48 + x, 125>>

\* serde_json::from_slice: the value, or an error for text that is not JSON
\* of the expected shape.
from_json(b) ==
    IF Len(b) = 3 /\ b[1] = 123 /\ b[3] = 125 /\ b[2] \in 48..57
    THEN Ok(b[2] - 48)
    ELSE Err("bad_database")

\* Byte-lexicographic order of sled keys.
BytesLess(a, b) ==
    \/ /\ Len(a) < Len(b)
       /\ \A i \in 1..Len(a) : a[i] = b[i]
    \/ \E i \in 1..Len(a) :
          /\ i <= Len(b)
          /\ a[i] < b[i]
          /\ \A j \in 1..(i - 1) : a[j] = b[j]

starts_with(k, p) ==
    /\ Len(p) <= Len(k)
    /\ \A i \in 1..Len(p) : k[i] = p[i]

\* slice.rsplit(|b| b == 0xff).next(): the bytes after the last separator.
RECURSIVE rsplit_first(_)
rsplit_first(k) ==
    IF k = <<>> \/ k[Len(k)] = SEP THEN <<>>
    ELSE Append(rsplit_first(SubSeq(k, 1, Len(k) - 1)), k[Len(k)])

\* slice.rsplit(|b| b == 0xff): all the parts, the last one first.
RECURSIVE rsplit(_)
rsplit(k) ==
    LET part == rsplit_first(k)
    IN  IF Len(part) = Len(k) THEN <<part>>
        ELSE <<part>> \o rsplit(SubSeq(k, 1, Len(k) - Len(part) - 1))

\* utils::string_from_bytes (String::from_utf8).  The ids of the model are
\* ASCII; the only other byte that occurs in a key segment is 0xc0, which is
\* not valid in any UTF-8 text.
string_from_bytes(b) ==
    IF \A i \in 1..Len(b) : b[i] < 128 THEN Ok(b) ELSE Err("utf8")

\* RoomId::try_from: the sigil '!', a localpart, ':' and a server name.
RoomId_try_from(s) ==
    IF /\ Len(s) >= 3
       /\ s[1] = 33
       /\ \E i \in 2..(Len(s) - 1) : s[i] = 58
    THEN Ok(s)
    ELSE Err("room_id")

\* ------------------------------------------------------------------ trees
Insert(tree, k, v) ==
    [x \in (DOMAIN tree) \cup {k} |-> IF x = k THEN v ELSE tree[x]]

Remove(tree, k) == [x \in (DOMAIN tree) \ {k} |-> tree[x]]

RemoveAll(tree, ks) == [x \in (DOMAIN tree) \ ks |-> tree[x]]

Get(tree, k) == IF k \in DOMAIN tree THEN Some(tree[k]) ELSE None

RECURSIVE SortKeys(_)
SortKeys(S) ==
    IF S = {} THEN <<>>
    ELSE LET m == CHOOSE x \in S : \A y \in S \ {x} : BytesLess(x, y)
         IN  <<m>> \o SortKeys(S \ {m})

\* sled::Tree::scan_prefix(..).keys(): the keys with the prefix, ascending.
scan_prefix(tree, prefix) ==
    SortKeys({k \in DOMAIN tree : starts_with(k, prefix)})

Range(s) == {s[i] : i \in DOMAIN s}

\* ------------------------------------------------------------------ keys
\* The key of a version without the separator between its components.
BackupId_unseparated(user_id, version) == user_id \o version

\* user_id bytes, 0xff, version bytes.
BackupId(user_id, version) == user_id \o <<SEP>> \o version

\* user_id, 0xff, version, 0xff, room_id, 0xff, session_id.
BackupKeyId(user_id, version, room_id, session_id) ==
    BackupId(user_id, version) \o <<SEP>> \o room_id \o <<SEP>> \o session_id

\* Globals::next_count: increments the counter and returns the new value.
next_count(c) == c + 1

\* What `last` records of a completed call: the operation, its user_id and
\* version arguments, whether it returned Ok, the error kind if not, the
\* version id create_backup/update_backup returned, and the previous value
\* that the entry tree's insert handed back to add_key (None for a new row).
Call(op, u, v, ok, err, ret, prev) ==
    [op |-> op, user |-> u, version |-> v, ok |-> ok, err |-> err, ret |-> ret,
     prev |-> prev]

\* ------------------------------------------------------------------ reads
\* The read operations are functions of `self`, the three trees.
get_backup(self, user_id, version) ==
    LET got == Get(self.backupid_algorithm, BackupId(user_id, version))
    IN  IF got = None THEN Ok(None)
        ELSE LET j == from_json(got[1])
             IN  IF j.ok THEN Ok(Some(j.val)) ELSE Err("bad_database")

\* get_latest_backup taking the first row of the scan instead of the last.
get_latest_backup_first(self, user_id) ==
    LET rows == scan_prefix(self.backupid_algorithm, user_id \o <<SEP>>)
    IN  IF rows = <<>> THEN Ok(None)
        ELSE LET key == rows[1]
                 j == from_json(self.backupid_algorithm[key])
             IN  IF j.ok
                 THEN Ok(Some([version |-> rsplit_first(key), meta |-> j.val]))
                 ELSE Err("bad_database")

\* get_latest_backup scanning by the user id without the separator after it.
get_latest_backup_unseparated(self, user_id) ==
    LET rows == scan_prefix(self.backupid_algorithm, user_id)
    IN  IF rows = <<>> THEN Ok(None)
        ELSE LET key == rows[Len(rows)]
                 j == from_json(self.backupid_algorithm[key])
             IN  IF j.ok
                 THEN Ok(Some([version |-> rsplit_first(key), meta |-> j.val]))
                 ELSE Err("bad_database")

get_latest_backup(self, user_id) ==
    LET rows == scan_prefix(self.backupid_algorithm, user_id \o <<SEP>>)
    IN  IF rows = <<>> THEN Ok(None)
        ELSE LET key == rows[Len(rows)]
                 j == from_json(self.backupid_algorithm[key])
             IN  IF j.ok
                 THEN Ok(Some([version |-> rsplit_first(key), meta |-> j.val]))
                 ELSE Err("bad_database")

count_keys(self, user_id, version) ==
    Len(scan_prefix(self.backupkeyid_backup, BackupId(user_id, version)))

\* get_etag reporting a missing etag row as NotFound.
get_etag_not_found(self, user_id, version) ==
    LET got == Get(self.backupid_etag, BackupId(user_id, version))
    IN  IF got = None THEN Err("NotFound")
        ELSE LET n == u64_from_bytes(got[1])
             IN  IF n.ok THEN Ok(to_string(n.val)) ELSE Err("bad_database")

get_etag(self, user_id, version) ==
    LET got == Get(self.backupid_etag, BackupId(user_id, version))
    IN  IF got = None THEN Err("bad_database")
        ELSE LET n == u64_from_bytes(got[1])
             IN  IF n.ok THEN Ok(to_string(n.val)) ELSE Err("bad_database")

get_session(self, user_id, version, room_id, session_id) ==
    LET got == Get(self.backupkeyid_backup,
                   BackupKeyId(user_id, version, room_id, session_id))
    IN  IF got = None THEN Ok(None)
        ELSE LET j == from_json(got[1])
             IN  IF j.ok THEN Ok(Some(j.val)) ELSE Err("bad_database")

\* What get_all's closure makes of one row: the room id and the session id
\* from the right end of the key, and the decoded value.
get_all_row(key, value) ==
    LET parts == rsplit(key)
        session_id == string_from_bytes(parts[1])
        room_id == IF Len(parts) < 2 THEN Err("bad_database")
                   ELSE LET str == string_from_bytes(parts[2])
                        IN  IF str.ok THEN RoomId_try_from(str.val) ELSE str
        key_data == from_json(value)
    IN  IF session_id.ok /\ room_id.ok /\ key_data.ok
        THEN Ok([room |-> room_id.val, session |-> session_id.val,
                 data |-> key_data.val])
        ELSE Err("bad_database")

\* The BTreeMap built by inserting the decoded rows in scan order: a later
\* row replaces an earlier one with the same key.
SessionsOf(decoded, S) ==
    LET last_of(s) == CHOOSE i \in S :
                         /\ decoded[i].val.session = s
                         /\ \A j \in S : decoded[j].val.session = s => j <= i
    IN  [s \in {decoded[i].val.session : i \in S} |-> decoded[last_of(s)].val.data]

\* get_all that leaves out the rows that fail to decode.
get_all_skipping(self, user_id, version) ==
    LET prefix == BackupId(user_id, version) \o <<SEP>>
        rows == scan_prefix(self.backupkeyid_backup, prefix)
        decoded == [i \in DOMAIN rows |->
                       get_all_row(rows[i], self.backupkeyid_backup[rows[i]])]
        good == {i \in DOMAIN rows : decoded[i].ok}
    IN  Ok([r \in {decoded[i].val.room : i \in good} |->
               [sessions |->
                   SessionsOf(decoded, {i \in good : decoded[i].val.room = r})]])

get_all(self, user_id, version) ==
    LET prefix == BackupId(user_id, version) \o <<SEP>>
        rows == scan_prefix(self.backupkeyid_backup, prefix)
        decoded == [i \in DOMAIN rows |->
                       get_all_row(rows[i], self.backupkeyid_backup[rows[i]])]
    IN  IF \E i \in DOMAIN rows : ~decoded[i].ok THEN Err("bad_database")
        ELSE Ok([r \in {decoded[i].val.room : i \in DOMAIN rows} |->
                    [sessions |->
                        SessionsOf(decoded, {i \in DOMAIN rows :
                                                decoded[i].val.room = r})]])

\* What get_room's closure makes of one row.
get_room_row(key, value) ==
    LET parts == rsplit(key)
        session_id == string_from_bytes(parts[1])
        key_data == from_json(value)
    IN  IF session_id.ok /\ key_data.ok
        THEN Ok([session |-> session_id.val, data |-> key_data.val])
        ELSE Err("bad_database")

get_room(self, user_id, version, room_id) ==
    LET prefix == BackupId(user_id, version) \o <<SEP>> \o room_id \o <<SEP>>
        rows == scan_prefix(self.backupkeyid_backup, prefix)
        decoded == [i \in DOMAIN rows |->
                       get_room_row(rows[i], self.backupkeyid_backup[rows[i]])]
    IN  SessionsOf(decoded, {i \in DOMAIN rows : decoded[i].ok})

\* ------------------------------------------------------------------ state
\* The threads that call the store.  In the runs whose calls are atomic no
\* call is ever in progress.
Threads == {1, 2}

Idle == [op |-> "idle", pc |-> 0, user |-> <<>>, version |-> <<>>,
         room |-> <<>>, session |-> <<>>, arg |-> 0, c |-> 0, etag0 |-> None,
         cursor |-> <<>>]

UserArgs == IF scope = "users" THEN Users ELSE {<<64, 97>>}
RoomArgs == IF scope = "rooms" THEN Rooms ELSE {<<33, 114, 58, 120>>}
SessionArgs == IF scope = "sessions" THEN Sessions ELSE {<<115, 49>>}

Init ==
    /\ scope \in Scopes
    /\ backupid_algorithm = <<>>
    /\ backupid_etag = <<>>
    /\ backupkeyid_backup = <<>>
    /\ count = 0
    /\ draws = 0
    /\ last = Call("init", <<>>, <<>>, TRUE, "", <<>>, None)
    /\ issued = {}
    /\ live = {}
    /\ calls = [t \in Threads |-> Idle]

\* The version ids a caller may name: those handed out so far and the one the
\* counter would hand out next.
VersionArgs == issued \cup {to_string(next_count(count))}

\* Another part of the server takes a value from the shared counter.
other_next_count ==
    /\ count + OtherDraws <= MaxCount
    /\ count' = count + OtherDraws
    /\ last' = Call("next_count", <<>>, <<>>, TRUE, "", <<>>, None)
    /\ UNCHANGED <<scope, calls, backupid_algorithm, backupid_etag, backupkeyid_backup,
                   draws, issued, live>>

\* create_backup numbering each user's versions 1, 2, .. by the rows the user
\* has, instead of taking the version id from the counter.
create_backup_numbered_per_user(user_id, backup_metadata) ==
    LET rows == scan_prefix(backupid_algorithm, user_id \o <<SEP>>)
        version == to_string(Len(rows) + 1)
        key == BackupId(user_id, version)
        c1 == next_count(count)
    IN  /\ draws + 2 <= MaxDraws
        /\ draws' = draws + 2
        /\ backupid_algorithm' =
               Insert(backupid_algorithm, key, to_json(backup_metadata))
        /\ backupid_etag' = Insert(backupid_etag, key, to_be_bytes(c1))
        /\ count' = next_count(c1)
        /\ last' = Call("create_backup", user_id, <<>>, TRUE, "", version, None)
        /\ issued' = issued \cup {version}
        /\ UNCHANGED <<scope, calls, backupkeyid_backup, live>>

create_backup(user_id, backup_metadata) ==
    LET c1 == next_count(count)
        version == to_string(c1)
        key == BackupId(user_id, version)
        c2 == next_count(c1)
    IN  /\ draws + 2 <= MaxDraws
        /\ draws' = draws + 2
        /\ backupid_algorithm' =
               Insert(backupid_algorithm, key, to_json(backup_metadata))
        /\ backupid_etag' = Insert(backupid_etag, key, to_be_bytes(c2))
        /\ count' = c2
        /\ last' = Call("create_backup", user_id, <<>>, TRUE, "", version, None)
        /\ issued' = issued \cup {version}
        /\ UNCHANGED <<scope, calls, backupkeyid_backup, live>>

\* delete_backup without the cascade over the entry tree.
delete_backup_without_cascade(user_id, version) ==
    LET key == BackupId(user_id, version)
    IN  /\ backupid_algorithm' = Remove(backupid_algorithm, key)
        /\ backupid_etag' = Remove(backupid_etag, key)
        /\ last' = Call("delete_backup", user_id, version, TRUE, "", <<>>, None)
        /\ live' = {e \in live : ~(e[1] = user_id /\ e[2] = version)}
        /\ UNCHANGED <<scope, calls, backupkeyid_backup, count, draws, issued>>

delete_backup(user_id, version) ==
    LET key == BackupId(user_id, version)
        outdated == Range(scan_prefix(backupkeyid_backup, key \o <<SEP>>))
    IN  /\ backupid_algorithm' = Remove(backupid_algorithm, key)
        /\ backupid_etag' = Remove(backupid_etag, key)
        /\ backupkeyid_backup' = RemoveAll(backupkeyid_backup, outdated)
        /\ last' = Call("delete_backup", user_id, version, TRUE, "", <<>>, None)
        /\ live' = {e \in live : ~(e[1] = user_id /\ e[2] = version)}
        /\ UNCHANGED <<scope, calls, count, draws, issued>>

\* update_backup that bumps the etag and leaves the stored metadata alone.
update_backup_etag_only(user_id, version, backup_metadata) ==
    LET key == BackupId(user_id, version)
    IN  IF Get(backupid_algorithm, key) = None
        THEN /\ last' = Call("update_backup", user_id, version, FALSE,
                             "NotFound", <<>>, None)
             /\ UNCHANGED <<scope, calls, backupid_algorithm, backupid_etag,
                            backupkeyid_backup, count, draws, issued, live>>
        ELSE LET c1 == next_count(count)
             IN  /\ draws + 1 <= MaxDraws
                 /\ draws' = draws + 1
                 /\ backupid_etag' = Insert(backupid_etag, key, to_be_bytes(c1))
                 /\ count' = c1
                 /\ last' = Call("update_backup", user_id, version, TRUE, "",
                                 version, None)
                 /\ UNCHANGED <<scope, calls, backupid_algorithm,
                                backupkeyid_backup, issued, live>>

\* update_backup without the check that the version exists.
update_backup_unchecked(user_id, version, backup_metadata) ==
    LET key == BackupId(user_id, version)
        c1 == next_count(count)
    IN  /\ draws + 1 <= MaxDraws
        /\ draws' = draws + 1
        /\ backupid_algorithm' =
               Insert(backupid_algorithm, key, to_json(backup_metadata))
        /\ backupid_etag' = Insert(backupid_etag, key, to_be_bytes(c1))
        /\ count' = c1
        /\ last' = Call("update_backup", user_id, version, TRUE, "", version, None)
        /\ UNCHANGED <<scope, calls, backupkeyid_backup, issued, live>>

update_backup(user_id, version, backup_metadata) ==
    LET key == BackupId(user_id, version)
    IN  IF Get(backupid_algorithm, key) = None
        THEN /\ last' = Call("update_backup", user_id, version, FALSE,
                             "NotFound", <<>>, None)
             /\ UNCHANGED <<scope, calls, backupid_algorithm, backupid_etag,
                            backupkeyid_backup, count, draws, issued, live>>
        ELSE LET c1 == next_count(count)
             IN  /\ draws + 1 <= MaxDraws
                 /\ draws' = draws + 1
                 /\ backupid_algorithm' =
                        Insert(backupid_algorithm, key, to_json(backup_metadata))
                 /\ backupid_etag' = Insert(backupid_etag, key, to_be_bytes(c1))
                 /\ count' = c1
                 /\ last' = Call("update_backup", user_id, version, TRUE, "",
                                 version, None)
                 /\ UNCHANGED <<scope, calls, backupkeyid_backup, issued, live>>

\* add_key without the etag bump.
add_key_without_bump(user_id, version, room_id, session_id, key_data) ==
    LET key == BackupId(user_id, version)
        entry == key \o <<SEP>> \o room_id \o <<SEP>> \o session_id
    IN  IF Get(backupid_algorithm, key) = None
        THEN /\ last' = Call("add_key", user_id, version, FALSE, "NotFound",
                             <<>>, None)
             /\ UNCHANGED <<scope, calls, backupid_algorithm, backupid_etag,
                            backupkeyid_backup, count, draws, issued, live>>
        ELSE /\ backupkeyid_backup' =
                    Insert(backupkeyid_backup, entry, to_json(key_data))
             /\ last' = Call("add_key", user_id, version, TRUE, "", <<>>,
                             Get(backupkeyid_backup, entry))
             /\ live' = live \cup {<<user_id, version, room_id, session_id>>}
             /\ UNCHANGED <<scope, calls, backupid_algorithm, backupid_etag, count,
                            draws, issued>>

\* add_key that keeps the value of a row that is already there.
add_key_keeping_old(user_id, version, room_id, session_id, key_data) ==
    LET key == BackupId(user_id, version)
        entry == key \o <<SEP>> \o room_id \o <<SEP>> \o session_id
    IN  IF Get(backupid_algorithm, key) = None
        THEN /\ last' = Call("add_key", user_id, version, FALSE, "NotFound",
                             <<>>, None)
             /\ UNCHANGED <<scope, calls, backupid_algorithm, backupid_etag,
                            backupkeyid_backup, count, draws, issued, live>>
        ELSE LET c1 == next_count(count)
             IN  /\ draws + 1 <= MaxDraws
                 /\ draws' = draws + 1
                 /\ backupid_etag' = Insert(backupid_etag, key, to_be_bytes(c1))
                 /\ backupkeyid_backup' =
                        IF entry \in DOMAIN backupkeyid_backup
                        THEN backupkeyid_backup
                        ELSE Insert(backupkeyid_backup, entry, to_json(key_data))
                 /\ count' = c1
                 /\ last' = Call("add_key", user_id, version, TRUE, "", <<>>,
                                 Get(backupkeyid_backup, entry))
                 /\ live' = live \cup {<<user_id, version, room_id, session_id>>}
                 /\ UNCHANGED <<scope, calls, backupid_algorithm, issued>>

add_key(user_id, version, room_id, session_id, key_data) ==
    LET key == BackupId(user_id, version)
        entry == key \o <<SEP>> \o room_id \o <<SEP>> \o session_id
    IN  IF Get(backupid_algorithm, key) = None
        THEN /\ last' = Call("add_key", user_id, version, FALSE, "NotFound",
                             <<>>, None)
             /\ UNCHANGED <<scope, calls, backupid_algorithm, backupid_etag,
                            backupkeyid_backup, count, draws, issued, live>>
        ELSE LET c1 == next_count(count)
             IN  /\ draws + 1 <= MaxDraws
                 /\ draws' = draws + 1
                 /\ backupid_etag' = Insert(backupid_etag, key, to_be_bytes(c1))
                 /\ backupkeyid_backup' =
                        Insert(backupkeyid_backup, entry, to_json(key_data))
                 /\ count' = c1
                 /\ last' = Call("add_key", user_id, version, TRUE, "", <<>>,
                                 Get(backupkeyid_backup, entry))
                 /\ live' = live \cup {<<user_id, version, room_id, session_id>>}
                 /\ UNCHANGED <<scope, calls, backupid_algorithm, issued>>

\* delete_all_keys scanning by the version id without the separator after it.
delete_all_keys_unterminated(user_id, version) ==
    LET key == BackupId(user_id, version)
        outdated == Range(scan_prefix(backupkeyid_backup, key))
    IN  /\ backupkeyid_backup' = RemoveAll(backupkeyid_backup, outdated)
        /\ last' = Call("delete_all_keys", user_id, version, TRUE, "", <<>>, None)
        /\ live' = {e \in live : ~(e[1] = user_id /\ e[2] = version)}
        /\ UNCHANGED <<scope, calls, backupid_algorithm, backupid_etag, count,
                       draws, issued>>

delete_all_keys(user_id, version) ==
    LET key == BackupId(user_id, version) \o <<SEP>>
        outdated == Range(scan_prefix(backupkeyid_backup, key))
    IN  /\ backupkeyid_backup' = RemoveAll(backupkeyid_backup, outdated)
        /\ last' = Call("delete_all_keys", user_id, version, TRUE, "", <<>>, None)
        /\ live' = {e \in live : ~(e[1] = user_id /\ e[2] = version)}
        /\ UNCHANGED <<scope, calls, backupid_algorithm, backupid_etag, count, draws, issued>>

\* delete_room_keys scanning by the room id without the separator after it.
delete_room_keys_unterminated(user_id, version, room_id) ==
    LET key == BackupId(user_id, version) \o <<SEP>> \o room_id
        outdated == Range(scan_prefix(backupkeyid_backup, key))
    IN  /\ backupkeyid_backup' = RemoveAll(backupkeyid_backup, outdated)
        /\ last' = Call("delete_room_keys", user_id, version, TRUE, "", <<>>, None)
        /\ live' = {e \in live :
                      ~(e[1] = user_id /\ e[2] = version /\ e[3] = room_id)}
        /\ UNCHANGED <<scope, calls, backupid_algorithm, backupid_etag, count,
                       draws, issued>>

delete_room_keys(user_id, version, room_id) ==
    LET key == BackupId(user_id, version) \o <<SEP>> \o room_id \o <<SEP>>
        outdated == Range(scan_prefix(backupkeyid_backup, key))
    IN  /\ backupkeyid_backup' = RemoveAll(backupkeyid_backup, outdated)
        /\ last' = Call("delete_room_keys", user_id, version, TRUE, "", <<>>, None)
        /\ live' = {e \in live :
                      ~(e[1] = user_id /\ e[2] = version /\ e[3] = room_id)}
        /\ UNCHANGED <<scope, calls, backupid_algorithm, backupid_etag, count, draws, issued>>

delete_room_key(user_id, version, room_id, session_id) ==
    LET key == BackupId(user_id, version) \o <<SEP>> \o room_id
                   \o <<SEP>> \o session_id
        outdated == Range(scan_prefix(backupkeyid_backup, key))
    IN  /\ backupkeyid_backup' = RemoveAll(backupkeyid_backup, outdated)
        /\ last' = Call("delete_room_key", user_id, version, TRUE, "", <<>>, None)
        /\ live' = live \ {<<user_id, version, room_id, session_id>>}
        /\ UNCHANGED <<scope, calls, backupid_algorithm, backupid_etag, count, draws, issued>>

Next ==
    \/ other_next_count
    \/ \E u \in UserArgs, m \in Metas : create_backup(u, m)
    \/ \E u \in UserArgs, v \in VersionArgs : delete_backup(u, v)
    \/ \E u \in UserArgs, v \in VersionArgs, m \in Metas : update_backup(u, v, m)
    \/ \E u \in UserArgs, v \in VersionArgs, r \in RoomArgs,
          s \in SessionArgs, d \in Datas : add_key(u, v, r, s, d)
    \/ \E u \in UserArgs, v \in VersionArgs : delete_all_keys(u, v)
    \/ \E u \in UserArgs, v \in VersionArgs, r \in RoomArgs : delete_room_keys(u, v, r)
    \/ \E u \in UserArgs, v \in VersionArgs, r \in RoomArgs, s \in SessionArgs :
          delete_room_key(u, v, r, s)

Spec == Init /\ [][Next]_vars

\* Runs in which only the user id varies (one room, one session id).
InitUsers ==
    /\ Init
    /\ scope = "users"

SpecUsers == InitUsers /\ [][Next]_vars

\* The store before and after a step.
db == [backupid_algorithm |-> backupid_algorithm,
       backupid_etag |-> backupid_etag,
       backupkeyid_backup |-> backupkeyid_backup]

db_next == [backupid_algorithm |-> backupid_algorithm',
            backupid_etag |-> backupid_etag',
            backupkeyid_backup |-> backupkeyid_backup']

\* ------------------------------------------------------- a damaged store
\* Text that is not JSON, and a key segment that is not UTF-8.
BadJson == <<123>>
BadSession == <<192>>

RowDecodes(self, k) ==
    get_all_row(k, self.backupkeyid_backup[k]).ok

\* The persisted entry tree is damaged from outside the store's operations:
\* the value of a row is replaced by text that is not JSON.  (At most one
\* damaged row at a time.)
corrupt_value(k) ==
    /\ k \in DOMAIN backupkeyid_backup
    /\ \A x \in DOMAIN backupkeyid_backup : RowDecodes(db, x)
    /\ backupkeyid_backup' = Insert(backupkeyid_backup, k, BadJson)
    /\ last' = Call("corrupt", <<>>, <<>>, TRUE, "", <<>>, None)
    /\ UNCHANGED <<scope, calls, backupid_algorithm, backupid_etag, count,
                   draws, issued, live>>

\* The same, with a row whose session segment is not UTF-8 appearing in a
\* room of an existing version.
corrupt_key(user_id, version, room_id, key_data) ==
    /\ BackupId(user_id, version) \in DOMAIN backupid_algorithm
    /\ \A x \in DOMAIN backupkeyid_backup : RowDecodes(db, x)
    /\ backupkeyid_backup' =
           Insert(backupkeyid_backup,
                  BackupKeyId(user_id, version, room_id, BadSession),
                  to_json(key_data))
    /\ last' = Call("corrupt", <<>>, <<>>, TRUE, "", <<>>, None)
    /\ UNCHANGED <<scope, calls, backupid_algorithm, backupid_etag, count,
                   draws, issued, live>>

\* The store's operations alone: nothing else takes values from the counter.
NextStore ==
    \/ \E u \in UserArgs, m \in Metas : create_backup(u, m)
    \/ \E u \in UserArgs, v \in VersionArgs : delete_backup(u, v)
    \/ \E u \in UserArgs, v \in VersionArgs, m \in Metas : update_backup(u, v, m)
    \/ \E u \in UserArgs, v \in VersionArgs, r \in RoomArgs,
          s \in SessionArgs, d \in Datas : add_key(u, v, r, s, d)
    \/ \E u \in UserArgs, v \in VersionArgs : delete_all_keys(u, v)
    \/ \E u \in UserArgs, v \in VersionArgs, r \in RoomArgs : delete_room_keys(u, v, r)
    \/ \E u \in UserArgs, v \in VersionArgs, r \in RoomArgs, s \in SessionArgs :
          delete_room_key(u, v, r, s)

\* Runs of the store's operations for two users.
SpecStoreUsers == InitUsers /\ [][NextStore]_vars

\* The store's operations and the damage.
NextDamaged ==
    \/ NextStore
    \/ \E k \in DOMAIN backupkeyid_backup : corrupt_value(k)
    \/ \E u \in UserArgs, v \in issued, r \in RoomArgs, d \in Datas :
          corrupt_key(u, v, r, d)

\* Runs over two rooms in which rows of the entry tree may be damaged.
InitRooms ==
    /\ Init
    /\ scope = "rooms"

SpecDamaged == InitRooms /\ [][NextDamaged]_vars

\* ------------------------------------------------------ calls step by step
\* The order of the counter and store steps inside each operation.  The
\* argument of an insert is evaluated before the insert: next_count is a step
\* of its own, before the write of the etag row.
create_backup_steps == <<"version", "metadata", "count", "etag">>

update_backup_steps == <<"check", "metadata", "count", "etag">>

\* add_key writing the entry row before it bumps the etag.
add_key_steps_entry_first == <<"check", "entry", "count", "etag">>

add_key_steps == <<"check", "count", "etag", "entry">>

delete_backup_steps == <<"metadata", "etag", "cascade">>

StepsOf(op) ==
    CASE op = "create_backup" -> create_backup_steps
      [] op = "update_backup" -> update_backup_steps
      [] op = "add_key" -> add_key_steps
      [] op = "delete_backup" -> delete_backup_steps
      [] OTHER -> <<>>

\* Thread t is in a call of op and its next step is `step`.
At(t, op, step) ==
    /\ calls[t].op = op
    /\ StepsOf(op)[calls[t].pc] = step

\* One writer (thread 1 alone), or every thread.
CanCall(t) ==
    /\ calls[t].op = "idle"
    /\ \/ scope = "threads"
       \/ scope = "writer" /\ t = 1

\* A call that has just been made; etag0 is the etag row of its version at
\* that moment.
Begin(op, user_id, version, room_id, session_id, arg) ==
    [op |-> op, pc |-> 1, user |-> user_id, version |-> version,
     room |-> room_id, session |-> session_id, arg |-> arg, c |-> 0,
     etag0 |-> Get(backupid_etag, BackupId(user_id, version)),
     cursor |-> <<>>]

\* What the call returns in Ok: create_backup and update_backup the version.
Ret(rec) ==
    IF rec.op \in {"create_backup", "update_backup"} THEN rec.version ELSE <<>>

\* The call returns; the caller of create_backup learns the version id.
Return(t, rec, ok, err) ==
    /\ calls' = [calls EXCEPT ![t] = Idle]
    /\ last' = Call(rec.op, rec.user, rec.version, ok, err,
                    IF ok THEN Ret(rec) ELSE <<>>, None)
    /\ issued' = IF rec.op = "create_backup" /\ ok
                 THEN issued \cup {rec.version}
                 ELSE issued

\* Thread t has done a step and is left with rec: it goes on to its next
\* step, or returns Ok after its last one.
Done(t, rec) ==
    IF rec.pc = Len(StepsOf(rec.op))
    THEN Return(t, rec, TRUE, "")
    ELSE /\ calls' = [calls EXCEPT ![t] = [rec EXCEPT !.pc = @ + 1]]
         /\ UNCHANGED <<last, issued>>

call_create_backup(t, user_id, backup_metadata) ==
    /\ CanCall(t)
    /\ draws + 2 <= MaxDraws
    /\ draws' = draws + 2
    /\ calls' = [calls EXCEPT ![t] =
                    Begin("create_backup", user_id, <<>>, <<>>, <<>>,
                          backup_metadata)]
    /\ UNCHANGED <<scope, backupid_algorithm, backupid_etag, backupkeyid_backup,
                   count, last, issued, live>>

call_update_backup(t, user_id, version, backup_metadata) ==
    /\ CanCall(t)
    /\ draws + 1 <= MaxDraws
    /\ draws' = draws + 1
    /\ calls' = [calls EXCEPT ![t] =
                    Begin("update_backup", user_id, version, <<>>, <<>>,
                          backup_metadata)]
    /\ UNCHANGED <<scope, backupid_algorithm, backupid_etag, backupkeyid_backup,
                   count, last, issued, live>>

call_add_key(t, user_id, version, room_id, session_id, key_data) ==
    /\ CanCall(t)
    /\ draws + 1 <= MaxDraws
    /\ draws' = draws + 1
    /\ calls' = [calls EXCEPT ![t] =
                    Begin("add_key", user_id, version, room_id, session_id,
                          key_data)]
    /\ UNCHANGED <<scope, backupid_algorithm, backupid_etag, backupkeyid_backup,
                   count, last, issued, live>>

call_delete_backup(t, user_id, version) ==
    /\ CanCall(t)
    /\ calls' = [calls EXCEPT ![t] =
                    Begin("delete_backup", user_id, version, <<>>, <<>>, 0)]
    /\ UNCHANGED <<scope, backupid_algorithm, backupid_etag, backupkeyid_backup,
                   count, draws, last, issued, live>>

\* let version = globals.next_count()?.to_string()
create_backup_version(t) ==
    /\ At(t, "create_backup", "version")
    /\ count' = next_count(count)
    /\ Done(t, [calls[t] EXCEPT !.version = to_string(next_count(count))])
    /\ UNCHANGED <<scope, backupid_algorithm, backupid_etag, backupkeyid_backup,
                   draws, live>>

\* The check that the version has a metadata row.
CheckStep(t, op) ==
    /\ At(t, op, "check")
    /\ IF Get(backupid_algorithm,
              BackupId(calls[t].user, calls[t].version)) = None
       THEN Return(t, calls[t], FALSE, "NotFound")
       ELSE Done(t, calls[t])
    /\ UNCHANGED <<scope, backupid_algorithm, backupid_etag, backupkeyid_backup,
                   count, draws, live>>

\* self.backupid_algorithm.insert(&key, ..)
MetadataStep(t, op) ==
    /\ At(t, op, "metadata")
    /\ backupid_algorithm' =
           Insert(backupid_algorithm,
                  BackupId(calls[t].user, calls[t].version),
                  to_json(calls[t].arg))
    /\ Done(t, calls[t])
    /\ UNCHANGED <<scope, backupid_etag, backupkeyid_backup, count, draws, live>>

\* globals.next_count()?, the argument of the insert into backupid_etag.
CountStep(t, op) ==
    /\ At(t, op, "count")
    /\ count' = next_count(count)
    /\ Done(t, [calls[t] EXCEPT !.c = next_count(count)])
    /\ UNCHANGED <<scope, backupid_algorithm, backupid_etag, backupkeyid_backup,
                   draws, live>>

\* self.backupid_etag.insert(&key, &..to_be_bytes())
EtagStep(t, op) ==
    /\ At(t, op, "etag")
    /\ backupid_etag' =
           Insert(backupid_etag, BackupId(calls[t].user, calls[t].version),
                  to_be_bytes(calls[t].c))
    /\ Done(t, calls[t])
    /\ UNCHANGED <<scope, backupid_algorithm, backupkeyid_backup, count, draws, live>>

create_backup_metadata(t) == MetadataStep(t, "create_backup")

create_backup_count(t) == CountStep(t, "create_backup")

create_backup_etag(t) == EtagStep(t, "create_backup")

update_backup_check(t) == CheckStep(t, "update_backup")

update_backup_metadata(t) == MetadataStep(t, "update_backup")

update_backup_count(t) == CountStep(t, "update_backup")

update_backup_etag(t) == EtagStep(t, "update_backup")

add_key_check(t) == CheckStep(t, "add_key")

add_key_count(t) == CountStep(t, "add_key")

add_key_etag(t) == EtagStep(t, "add_key")

\* self.backupkeyid_backup.insert(&key, ..)
add_key_entry(t) ==
    /\ At(t, "add_key", "entry")
    /\ backupkeyid_backup' =
           Insert(backupkeyid_backup,
                  BackupKeyId(calls[t].user, calls[t].version, calls[t].room,
                              calls[t].session),
                  to_json(calls[t].arg))
    /\ Done(t, calls[t])
    /\ UNCHANGED <<scope, backupid_algorithm, backupid_etag, count, draws, live>>

\* self.backupid_algorithm.remove(&key)
delete_backup_metadata(t) ==
    /\ At(t, "delete_backup", "metadata")
    /\ backupid_algorithm' =
           Remove(backupid_algorithm, BackupId(calls[t].user, calls[t].version))
    /\ Done(t, calls[t])
    /\ UNCHANGED <<scope, backupid_etag, backupkeyid_backup, count, draws, live>>

\* self.backupid_etag.remove(&key)
delete_backup_etag(t) ==
    /\ At(t, "delete_backup", "etag")
    /\ backupid_etag' =
           Remove(backupid_etag, BackupId(calls[t].user, calls[t].version))
    /\ Done(t, calls[t])
    /\ UNCHANGED <<scope, backupid_algorithm, backupkeyid_backup, count, draws, live>>

\* One turn of the loop over scan_prefix(..).keys(): the iterator hands out
\* the next key after the one it handed out before, and that row is removed;
\* when there is none the loop ends and the call returns.
delete_backup_cascade(t) ==
    LET prefix == BackupId(calls[t].user, calls[t].version) \o <<SEP>>
        rest == {k \in Range(scan_prefix(backupkeyid_backup, prefix)) :
                    calls[t].cursor = <<>> \/ BytesLess(calls[t].cursor, k)}
    IN  /\ At(t, "delete_backup", "cascade")
        /\ IF rest = {}
           THEN /\ Return(t, calls[t], TRUE, "")
                /\ UNCHANGED backupkeyid_backup
           ELSE LET outdated_key == SortKeys(rest)[1]
                IN  /\ backupkeyid_backup' =
                           Remove(backupkeyid_backup, outdated_key)
                    /\ calls' = [calls EXCEPT ![t].cursor = outdated_key]
                    /\ UNCHANGED <<last, issued>>
        /\ UNCHANGED <<scope, backupid_algorithm, backupid_etag, count, draws, live>>

\* A caller names the version ids that create_backup has returned.  With two
\* threads the calls pass one metadata value and one key data value.
MetaArgs == IF scope = "threads" THEN {1} ELSE Metas
DataArgs == IF scope = "threads" THEN {1} ELSE Datas

NextSteps ==
    \E t \in Threads :
        \/ \E u \in UserArgs, m \in MetaArgs : call_create_backup(t, u, m)
        \/ \E u \in UserArgs, v \in issued, m \in MetaArgs :
              call_update_backup(t, u, v, m)
        \/ \E u \in UserArgs, v \in issued, r \in RoomArgs,
              s \in SessionArgs, d \in DataArgs : call_add_key(t, u, v, r, s, d)
        \/ \E u \in UserArgs, v \in issued : call_delete_backup(t, u, v)
        \/ create_backup_version(t)
        \/ create_backup_metadata(t)
        \/ create_backup_count(t)
        \/ create_backup_etag(t)
        \/ update_backup_check(t)
        \/ update_backup_metadata(t)
        \/ update_backup_count(t)
        \/ update_backup_etag(t)
        \/ add_key_check(t)
        \/ add_key_count(t)
        \/ add_key_etag(t)
        \/ add_key_entry(t)
        \/ delete_backup_metadata(t)
        \/ delete_backup_etag(t)
        \/ delete_backup_cascade(t)

EmptyStore ==
    /\ backupid_algorithm = <<>>
    /\ backupid_etag = <<>>
    /\ backupkeyid_backup = <<>>
    /\ count = 0
    /\ draws = 0
    /\ last = Call("init", <<>>, <<>>, TRUE, "", <<>>, None)
    /\ issued = {}
    /\ live = {}
    /\ calls = [t \in Threads |-> Idle]

\* One thread calls the store; its steps are visible one by one.
InitWriter ==
    /\ scope = "writer"
    /\ EmptyStore

SpecWriter == InitWriter /\ [][NextSteps]_vars

\* Two threads call the store; their steps interleave.
InitThreads ==
    /\ scope = "threads"
    /\ EmptyStore

SpecThreads == InitThreads /\ [][NextSteps]_vars

\* ------------------------------------------------------------------ claims
\* Every version id the counter can hand out within the bounds.
VersionIds == {to_string(n) : n \in 1..(MaxCount + MaxDraws)}

\* The entry rows of one version: the rows stored at (user, version, r, s).
RowsOf(self, user_id, version) ==
    LET keys == {BackupKeyId(user_id, version, r, s) : r \in Rooms, s \in Sessions}
                    \cap DOMAIN self.backupkeyid_backup
    IN  [k \in keys |-> self.backupkeyid_backup[k]]

LiveOf(user_id, version) ==
    {e \in live : e[1] = user_id /\ e[2] = version}

\* The etag of a version read as an unsigned integer; 0 when get_etag fails.
EtagNumber(self, user_id, version) ==
    LET e == get_etag(self, user_id, version)
    IN  IF e.ok THEN parse_u64(e.val) ELSE 0

Exists(self, user_id, version) == get_backup(self, user_id, version) # Ok(None)

\* C1: count_keys(user, v) is the number of distinct (room, session) pairs
\* added under exactly (user, v) and not since deleted, for every user and
\* version, also when one version id is a prefix of another ("1" and "10").
CountKeysCountsOwnEntries ==
    \A u \in Users, v \in VersionIds :
        count_keys(db, u, v) = Cardinality(LiveOf(u, v))

\* C2: after delete_backup(user, v) has completed, get_backup(user, v) returns
\* none and count_keys(user, v) returns 0.
DeleteBackupLeavesNothing ==
    last.op = "delete_backup" =>
        /\ get_backup(db, last.user, last.version) = Ok(None)
        /\ count_keys(db, last.user, last.version) = 0

\* C3: every completed update_backup, add_key, delete_room_key,
\* delete_room_keys or delete_all_keys that changes the metadata or the
\* entries of an existing version leaves its etag strictly greater.
EtagBumpedByEveryMutation ==
    [][last'.op \in {"update_backup", "add_key", "delete_room_key",
                   "delete_room_keys", "delete_all_keys"} =>
       \A u \in Users, v \in VersionIds :
          ( /\ Exists(db, u, v)
            /\ get_etag(db, u, v).ok
            /\ \/ get_backup(db_next, u, v) # get_backup(db, u, v)
               \/ RowsOf(db_next, u, v) # RowsOf(db, u, v) )
          => /\ get_etag(db_next, u, v).ok
             /\ EtagNumber(db_next, u, v) > EtagNumber(db, u, v)]_vars

\* C4: for an existing version, get_etag read as an unsigned integer is
\* strictly greater after each successful update_backup or add_key on that
\* version than before it, and whatever else is called in between never
\* replaces the etag of an existing version by a smaller or equal one.
EtagGrowsOnUpdateAndAddKey ==
    [][/\ (last'.op \in {"update_backup", "add_key"} /\ last'.ok) =>
            \A u \in Users, v \in VersionIds :
            (last'.user = u /\ last'.version = v)
            => /\ get_etag(db, u, v).ok
               /\ get_etag(db_next, u, v).ok
               /\ EtagNumber(db_next, u, v) > EtagNumber(db, u, v)
       /\ backupid_etag' # backupid_etag
            => \A u \in Users, v \in issued :
                  ( /\ Exists(db, u, v)
                    /\ Exists(db_next, u, v)
                    /\ get_etag(db_next, u, v) # get_etag(db, u, v) )
                  => EtagNumber(db_next, u, v) > EtagNumber(db, u, v)]_vars

\* C4 witness: add_key has succeeded on a version whose etag has by then
\* been bumped at least twice since create_backup wrote it.
EtagGrowsOnUpdateAndAddKeyWitness ==
    /\ last.op = "add_key"
    /\ last.ok
    /\ Exists(db, last.user, last.version)
    /\ EtagNumber(db, last.user, last.version) > parse_u64(last.version) + 2

\* C5: delete_room_key(user, version, room, session) removes the row stored at
\* exactly that 4-tuple and leaves every other row as it was.
DeleteRoomKeyIsPointDelete ==
    [][last'.op = "delete_room_key" =>
       \A u \in Users, v \in VersionIds, r \in Rooms, s \in Sessions :
          ( /\ last'.user = u
            /\ last'.version = v
            /\ delete_room_key(u, v, r, s) )
          => backupkeyid_backup' =
                Remove(backupkeyid_backup, BackupKeyId(u, v, r, s))]_vars

\* C6: update_backup and add_key for a (user, version) without a metadata row
\* fail with NotFound, leave the three trees unchanged and take no counter
\* value.
MissingVersionIsNotFound ==
    [][last'.op \in {"update_backup", "add_key"} =>
       \A u \in Users, v \in VersionIds :
          ( /\ last'.user = u
            /\ last'.version = v
            /\ ~Exists(db, u, v) )
          => /\ ~last'.ok
             /\ last'.err = "NotFound"
             /\ UNCHANGED <<backupid_algorithm, backupid_etag,
                            backupkeyid_backup, count>>]_vars

\* C6 witness: add_key has just failed with NotFound on a version that
\* create_backup had returned and delete_backup has since removed.
MissingVersionIsNotFoundWitness ==
    /\ last.op = "add_key"
    /\ ~last.ok
    /\ last.err = "NotFound"
    /\ last.version \in issued
    /\ \A u \in Users : ~Exists(db, u, last.version)

\* C7: after a successful add_key(user, v, room, session, data) get_session
\* returns exactly data; when the row was already there the call replaces its
\* value, changes no count_keys and changes no other row.
AddKeyStoresData ==
    [][(last'.op = "add_key" /\ last'.ok) =>
       \A u \in Users, v \in VersionIds, r \in Rooms, s \in Sessions,
          d \in Datas :
          ( /\ last'.user = u
            /\ last'.version = v
            /\ add_key(u, v, r, s, d) )
          => /\ get_session(db_next, u, v, r, s) = Ok(Some(d))
             /\ get_session(db, u, v, r, s) # Ok(None)
                  => /\ \A u2 \in Users, v2 \in VersionIds :
                          count_keys(db_next, u2, v2) = count_keys(db, u2, v2)
                     /\ DOMAIN backupkeyid_backup' = DOMAIN backupkeyid_backup
                     /\ \A k \in DOMAIN backupkeyid_backup :
                          k # BackupKeyId(u, v, r, s)
                          => backupkeyid_backup'[k] = backupkeyid_backup[k]]_vars

\* C7 witness: add_key has just replaced the value of the only row there is by
\* different data, and get_session returns the new data.
AddKeyStoresDataWitness ==
    /\ last.op = "add_key"
    /\ last.ok
    /\ last.prev # None
    /\ Cardinality(DOMAIN backupkeyid_backup) = 1
    /\ \E r \in Rooms, s \in Sessions, d \in Datas :
          /\ get_session(db, last.user, last.version, r, s) = Ok(Some(d))
          /\ last.prev # Some(to_json(d))

\* The versions of a user that get_backup finds.
ExistingVersions(self, user_id) ==
    {v \in VersionIds : Exists(self, user_id, v)}

\* The version id that sorts last in byte-lexicographic order.
LexLast(S) == CHOOSE v \in S : \A w \in S \ {v} : BytesLess(w, v)

\* C8: get_latest_backup(user) returns None exactly when the user has no
\* metadata row, and otherwise the version id that sorts last in
\* byte-lexicographic order among the user's existing versions, with that
\* version's metadata.
LatestBackupIsLexLast ==
    \A u \in Users :
        LET have == ExistingVersions(db, u)
        IN  get_latest_backup(db, u) =
               IF have = {} THEN Ok(None)
               ELSE Ok(Some([version |-> LexLast(have),
                             meta |-> get_backup(db, u, LexLast(have)).val[1]]))

\* C8 witness: a user has a one-digit version and a later two-digit version,
\* and get_latest_backup returns the one-digit one.
LatestBackupIsLexLastWitness ==
    \E u \in Users, v \in VersionIds, w \in VersionIds :
        /\ Exists(db, u, v)
        /\ Exists(db, u, w)
        /\ Len(v) = 1
        /\ Len(w) = 2
        /\ get_latest_backup(db, u).ok
        /\ get_latest_backup(db, u).val # None
        /\ get_latest_backup(db, u).val[1].version = v

\* The components of a key: the bytes between the separators.
RECURSIVE SplitKey(_)
SplitKey(k) ==
    IF \A i \in 1..Len(k) : k[i] # SEP THEN <<k>>
    ELSE LET i == CHOOSE x \in 1..Len(k) :
                     k[x] = SEP /\ \A y \in 1..(x - 1) : k[y] # SEP
         IN  <<SubSeq(k, 1, i - 1)>> \o SplitKey(SubSeq(k, i + 1, Len(k)))

\* C9: every row of the entry tree belongs to a (user, version) that has a
\* metadata row.
EntriesHaveParent ==
    \A k \in DOMAIN backupkeyid_backup :
        LET parts == SplitKey(k)
        IN  /\ Len(parts) = 4
            /\ Exists(db, parts[1], parts[2])

\* C9 witness: delete_backup has just removed a version that had been
\* created, and the rows of another version are still there.
EntriesHaveParentWitness ==
    /\ last.op = "delete_backup"
    /\ last.version \in issued
    /\ ~Exists(db, last.user, last.version)
    /\ backupkeyid_backup # <<>>

\* C10 as stated: once delete_backup(user, v) has completed, the next call
\* does not make get_backup(user, v) return a value, and create_backup
\* returns a version id no earlier create_backup returned.
DeletedIsTerminal ==
    [][/\ last.op = "delete_backup"
            => get_backup(db_next, last.user, last.version) = Ok(None)
       /\ last'.op = "create_backup" => last'.ret \notin issued]_vars

\* C10 amended: a version id that create_backup has returned and that
\* get_backup does not find (never this user's, or removed by delete_backup)
\* is not found after any later call, so a version that existed and was
\* deleted stays deleted; and create_backup returns a version id no earlier
\* create_backup returned.
IssuedDeletedIsTerminal ==
    [][/\ backupid_algorithm' # backupid_algorithm
            => \A u \in Users, v \in issued :
                  ~Exists(db, u, v) => ~Exists(db_next, u, v)
       /\ last'.op = "create_backup" => last'.ret \notin issued]_vars

\* C10 witness: create_backup has just returned while a version id returned
\* before is gone for every user, i.e. after its delete_backup.
IssuedDeletedIsTerminalWitness ==
    /\ last.op = "create_backup"
    /\ \E v \in issued \ {last.ret} : \A u \in Users : ~Exists(db, u, v)

\* C11: every version with a metadata row has an etag row, so get_etag
\* succeeds wherever get_backup returns a value; where there is no etag row
\* (never created, or removed by delete_backup) get_etag fails with the
\* data-corruption error, not with NotFound.
MetadataHasEtag ==
    \A u \in Users, v \in VersionIds :
        /\ Exists(db, u, v) =>
              /\ BackupId(u, v) \in DOMAIN backupid_etag
              /\ get_etag(db, u, v).ok
        /\ BackupId(u, v) \notin DOMAIN backupid_etag =>
              get_etag(db, u, v) = Err("bad_database")

\* C11 witness: delete_backup has just removed a created version, whose etag
\* now reads as a data-corruption error, while another version still has
\* metadata and an etag.
MetadataHasEtagWitness ==
    /\ last.op = "delete_backup"
    /\ last.version \in issued
    /\ get_etag(db, last.user, last.version) = Err("bad_database")
    /\ \E u \in Users, v \in issued : Exists(db, u, v) /\ get_etag(db, u, v).ok

\* C12: create_backup(user, metadata) returning v makes get_backup(user, v)
\* return that metadata; a successful update_backup(user, v, metadata2)
\* returns v, makes get_backup(user, v) return metadata2 and changes the
\* metadata of no other (user, version).
MetadataRoundTrip ==
    [][/\ last'.op = "create_backup" =>
            \A u \in Users, m \in Metas :
               create_backup(u, m)
               => get_backup(db_next, u, last'.ret) = Ok(Some(m))
       /\ (last'.op = "update_backup" /\ last'.ok) =>
            \A u \in {last'.user}, v \in {last'.version}, m \in Metas :
               update_backup(u, v, m)
               => /\ last'.ret = v
                  /\ get_backup(db_next, u, v) = Ok(Some(m))
                  /\ \A u2 \in Users, v2 \in VersionIds :
                        <<u2, v2>> # <<u, v>>
                        => get_backup(db_next, u2, v2) = get_backup(db, u2, v2)]_vars

\* C12 witness: update_backup has just succeeded on one of two existing
\* versions, and the two now hold different metadata.
MetadataRoundTripWitness ==
    /\ last.op = "update_backup"
    /\ last.ok
    /\ \E u \in Users, v \in issued :
          /\ <<u, v>> # <<last.user, last.version>>
          /\ Exists(db, u, v)
          /\ get_backup(db, u, v) # get_backup(db, last.user, last.version)

\* Identifier components without the separator byte, chosen so that joining
\* them without a separator would collide ("1" + "00" and "10" + "0").
Components == {<<48>>, <<49>>, <<48, 48>>, <<49, 48>>}

BackupIdInjective ==
    Cardinality({BackupId(u, v) : u \in Components, v \in Components})
       = Cardinality(Components) * Cardinality(Components)

BackupKeyIdInjective ==
    Cardinality({BackupKeyId(u, v, r, s) : u \in Components, v \in Components,
                                           r \in Components, s \in Components})
       = Cardinality(Components) * Cardinality(Components)
            * Cardinality(Components) * Cardinality(Components)

\* C13: for components without the byte 0xff, different (user, version)
\* tuples have different metadata/etag keys and different (user, version,
\* room, session) tuples have different entry keys; in particular for the ids
\* the store has been called with.
KeyEncodingInjective ==
    /\ BackupIdInjective
    /\ BackupKeyIdInjective
    /\ Cardinality({BackupId(u, v) : u \in Users, v \in issued})
          = Cardinality(Users) * Cardinality(issued)
    /\ Cardinality({BackupKeyId(u, v, r, s) : u \in Users, v \in issued,
                                              r \in Rooms, s \in Sessions})
          = Cardinality(Users) * Cardinality(issued)
               * Cardinality(Rooms) * Cardinality(Sessions)

\* C13 witness: the entry tree holds the rows of two different tuples, and the
\* key of one is a byte prefix of the key of the other.
KeyEncodingInjectiveWitness ==
    \E t1 \in live, t2 \in live :
        LET k1 == BackupKeyId(t1[1], t1[2], t1[3], t1[4])
            k2 == BackupKeyId(t2[1], t2[2], t2[3], t2[4])
        IN  /\ t1 # t2
            /\ k1 \in DOMAIN backupkeyid_backup
            /\ k2 \in DOMAIN backupkeyid_backup
            /\ starts_with(k2, k1)

\* The entry rows whose key has exactly these leading components.
KeysOfVersion(user_id, version) ==
    {k \in DOMAIN backupkeyid_backup :
        LET parts == SplitKey(k)
        IN  parts[1] = user_id /\ parts[2] = version}

KeysOfRoom(user_id, version, room_id) ==
    {k \in KeysOfVersion(user_id, version) : SplitKey(k)[3] = room_id}

\* C14: delete_all_keys(user, version) removes the entries of exactly that
\* (user, version): get_all is empty afterwards, the metadata and etag trees
\* are unchanged and so is every other entry row.
DeleteAllKeysFrame ==
    [][last'.op = "delete_all_keys" =>
       LET u == last'.user
           v == last'.version
       IN  /\ get_all(db_next, u, v).ok
           /\ DOMAIN get_all(db_next, u, v).val = {}
           /\ UNCHANGED <<backupid_algorithm, backupid_etag>>
           /\ backupkeyid_backup' =
                 RemoveAll(backupkeyid_backup, KeysOfVersion(u, v))]_vars

\* C14 witness: delete_all_keys(user, v) has just completed and the user
\* still has an entry in a version whose id starts with v.
DeleteAllKeysFrameWitness ==
    /\ last.op = "delete_all_keys"
    /\ \E k \in DOMAIN backupkeyid_backup :
          /\ SplitKey(k)[1] = last.user
          /\ SplitKey(k)[2] # last.version
          /\ starts_with(SplitKey(k)[2], last.version)

\* C15: delete_room_keys(user, version, room) removes the entries of exactly
\* that room of that version: get_room is empty afterwards and every other
\* row of the three trees is unchanged.
DeleteRoomKeysFrame ==
    [][last'.op = "delete_room_keys" =>
       LET u == last'.user
           v == last'.version
       IN  \A r \in Rooms :
              delete_room_keys(u, v, r)
              => /\ DOMAIN get_room(db_next, u, v, r) = {}
                 /\ UNCHANGED <<backupid_algorithm, backupid_etag>>
                 /\ backupkeyid_backup' =
                       RemoveAll(backupkeyid_backup, KeysOfRoom(u, v, r))]_vars

\* C15 witness: delete_room_keys has just completed on a version that still
\* has an entry in the room whose id starts with the id of another room, and
\* none in that other room.
DeleteRoomKeysFrameWitness ==
    /\ last.op = "delete_room_keys"
    /\ \E r1 \in Rooms, r2 \in Rooms :
          /\ r1 # r2
          /\ starts_with(r2, r1)
          /\ KeysOfRoom(last.user, last.version, r1) = {}
          /\ KeysOfRoom(last.user, last.version, r2) # {}

\* The rows of one user: the keys that start with the user id and 0xff.
OwnRows(self, user_id) ==
    LET own(tree) == [k \in {x \in DOMAIN tree :
                                starts_with(x, user_id \o <<SEP>>)} |-> tree[k]]
    IN  [backupid_algorithm |-> own(self.backupid_algorithm),
         backupid_etag |-> own(self.backupid_etag),
         backupkeyid_backup |-> own(self.backupkeyid_backup)]

\* What every read operation returns for one user.
ReadsOf(self, user_id) ==
    [latest |-> get_latest_backup(self, user_id),
     versions |->
        [v \in VersionArgs |->
            [backup |-> get_backup(self, user_id, v),
             etag |-> get_etag(self, user_id, v),
             count |-> count_keys(self, user_id, v),
             all |-> get_all(self, user_id, v),
             rooms |-> [r \in Rooms |-> get_room(self, user_id, v, r)],
             sessions |-> [rs \in Rooms \X Sessions |->
                              get_session(self, user_id, v, rs[1], rs[2])]]]]

\* C20: a call made for one user changes no metadata, etag or entry row of
\* another user, also when one user id is a byte prefix of the other; and
\* what the read operations return for a user is what they return on that
\* user's rows alone, so it is the same before and after any call made for
\* another user.
UserIsolation ==
    /\ [](\A b \in Users :
             LET own == OwnRows(db, b)
             IN  ReadsOf(db, b) = ReadsOf(own, b))
    /\ [][(last'.op \notin {"init", "next_count"} /\ db_next # db) =>
          \A b \in Users \ {last'.user} :
             /\ \A k \in DOMAIN backupid_algorithm \cup DOMAIN backupid_algorithm' :
                   starts_with(k, b \o <<SEP>>)
                   => Get(backupid_algorithm', k) = Get(backupid_algorithm, k)
             /\ \A k \in DOMAIN backupid_etag \cup DOMAIN backupid_etag' :
                   starts_with(k, b \o <<SEP>>)
                   => Get(backupid_etag', k) = Get(backupid_etag, k)
             /\ \A k \in DOMAIN backupkeyid_backup \cup DOMAIN backupkeyid_backup' :
                   starts_with(k, b \o <<SEP>>)
                   => Get(backupkeyid_backup', k) = Get(backupkeyid_backup, k)]_vars

\* C20 witness: a call for the user with the longer id has just completed
\* while the user whose id is a prefix of it has a version with an entry, and
\* the calling user has a version too.
UserIsolationWitness ==
    \E a \in Users, b \in Users :
        /\ a # b
        /\ starts_with(a, b)
        /\ last.user = a
        /\ last.op \in {"delete_backup", "delete_all_keys", "create_backup"}
        /\ \E v \in issued : KeysOfVersion(b, v) # {}
        /\ \E v \in issued : BackupId(a, v) \in DOMAIN backupid_algorithm

\* A row decodes when its key has the four components, the session id is
\* UTF-8, the room id is a room id and the value is JSON.
Decodable(k) ==
    LET parts == SplitKey(k)
    IN  /\ Len(parts) = 4
        /\ string_from_bytes(parts[4]).ok
        /\ string_from_bytes(parts[3]).ok
        /\ RoomId_try_from(parts[3]).ok
        /\ from_json(backupkeyid_backup[k]).ok

\* C16: when an entry of (user, version) does not decode, get_all fails with
\* the data-corruption error while get_room returns exactly the entries of the
\* room that decode; when every entry decodes, get_all has the rooms that have
\* entries, and for each of them the sessions that get_room returns.
DecodeFailurePolicy ==
    \A u \in Users, v \in issued :
        LET bad == {k \in KeysOfVersion(u, v) : ~Decodable(k)}
            all == get_all(db, u, v)
        IN  /\ bad # {} => all = Err("bad_database")
            /\ \A r \in Rooms :
                  get_room(db, u, v, r) =
                     [s \in {SplitKey(k)[4] : k \in KeysOfRoom(u, v, r) \ bad} |->
                         from_json(backupkeyid_backup[BackupKeyId(u, v, r, s)]).val]
            /\ bad = {} =>
                  /\ all.ok
                  /\ DOMAIN all.val = {r \in Rooms : KeysOfRoom(u, v, r) # {}}
                  /\ \A r \in DOMAIN all.val :
                        all.val[r].sessions = get_room(db, u, v, r)

\* C16 witness: a room holds a row that decodes and a row that does not;
\* get_all fails and get_room returns the one session that decodes.
DecodeFailurePolicyWitness ==
    \E u \in Users, v \in issued, r \in Rooms :
        /\ \E k \in KeysOfRoom(u, v, r) : ~Decodable(k)
        /\ \E k \in KeysOfRoom(u, v, r) : Decodable(k)
        /\ ~get_all(db, u, v).ok
        /\ Cardinality(DOMAIN get_room(db, u, v, r)) = 1

\* What an etag row holds, as a number; 0 when there is no row.
EtagOf(got) == IF got = None THEN 0 ELSE be_value(got[1])

\* C17: inside one call, create_backup and update_backup write the metadata
\* row before the etag row, and add_key writes the bumped etag before the
\* entry row; so with one writer, whoever sees the new or replaced entry sees
\* an etag greater than the one the version had when that add_key started.
WritesAreOrdered ==
    [][\A t \in Threads :
          calls'[t] # calls[t] =>
             LET rec == calls[t]
                 key == BackupId(rec.user, rec.version)
             IN  /\ ( /\ rec.op \in {"create_backup", "update_backup"}
                      /\ backupid_etag' # backupid_etag )
                    => /\ Get(backupid_algorithm, key) = Some(to_json(rec.arg))
                       /\ UNCHANGED backupid_algorithm
                 /\ ( /\ rec.op \in {"create_backup", "update_backup"}
                      /\ backupid_algorithm' # backupid_algorithm )
                    => /\ Get(backupid_etag, key) = rec.etag0
                       /\ UNCHANGED backupid_etag
                 /\ ( /\ rec.op = "add_key"
                      /\ backupid_etag' # backupid_etag )
                    => UNCHANGED backupkeyid_backup
                 /\ ( /\ rec.op = "add_key"
                      /\ backupkeyid_backup' # backupkeyid_backup )
                    => /\ Get(backupid_etag, key) = Some(to_be_bytes(rec.c))
                       /\ UNCHANGED backupid_etag
                       /\ EtagOf(Get(backupid_etag', key)) > EtagOf(rec.etag0)]_vars

\* C17 witness: add_key is between its two writes: the etag row already holds
\* the new value, above the old one, and the entry row still holds the data
\* that the call is about to replace.
WritesAreOrderedWitness ==
    \E t \in Threads :
        LET rec == calls[t]
            key == BackupId(rec.user, rec.version)
            entry == BackupKeyId(rec.user, rec.version, rec.room, rec.session)
        IN  /\ At(t, "add_key", "entry")
            /\ rec.etag0 # None
            /\ Get(backupid_etag, key) = Some(to_be_bytes(rec.c))
            /\ rec.c > EtagOf(rec.etag0)
            /\ entry \in DOMAIN backupkeyid_backup
            /\ backupkeyid_backup[entry] # to_json(rec.arg)

\* C18: when the counter and store steps of concurrent add_key and
\* update_backup calls interleave, every write to the etag row of an existing
\* version stores a value greater than the one it replaces.
EtagWritesIncrease ==
    [][\A t \in Threads :
          ( /\ calls'[t] # calls[t]
            /\ \/ At(t, "add_key", "etag")
               \/ At(t, "update_backup", "etag")
            /\ BackupId(calls[t].user, calls[t].version) \in DOMAIN backupid_etag )
          => EtagOf(Get(backupid_etag',
                        BackupId(calls[t].user, calls[t].version)))
                > EtagOf(Get(backupid_etag,
                             BackupId(calls[t].user, calls[t].version)))]_vars

\* C19: when the steps of delete_backup interleave with those of add_key and
\* update_backup, then once every call has returned each version is whole or
\* gone: no etag row and no entry row without the metadata row, no metadata
\* row without the etag row, and a version whose delete_backup returned last
\* has no metadata.
ReturnedCallsLeaveVersionsWhole ==
    (\A t \in Threads : calls[t].op = "idle") =>
        /\ \A u \in Users, v \in VersionIds :
              IF BackupId(u, v) \in DOMAIN backupid_algorithm
              THEN BackupId(u, v) \in DOMAIN backupid_etag
              ELSE /\ BackupId(u, v) \notin DOMAIN backupid_etag
                   /\ KeysOfVersion(u, v) = {}
        /\ last.op = "delete_backup" =>
              BackupId(last.user, last.version) \notin DOMAIN backupid_algorithm

====
